---- MODULE Spec2Model ----
(***************************************************************************)
(* The contact form of src/src/App.jsx: six state cells, the two async     *)
(* handlers handleAiPolish and handleSubmit, and the three onChange        *)
(* setters.  Text is a sequence of one-character strings so that           *)
(* String.prototype.trim is computed, not assumed.  Every handler          *)
(* invocation is a numbered record holding what its closure captured and   *)
(* every outbound call it issued; an awaited call is settled by a separate *)
(* step, so invocations and keystrokes interleave as they do on the        *)
(* browser's event loop.                                                   *)
(***************************************************************************)
EXTENDS Integers, Sequences, FiniteSets, TLC

VARIABLES name, email, message, isPolishing, isSubmitting, status, apiKey, sub, pol

vars == <<name, email, message, isPolishing, isSubmitting, status, apiKey, sub, pol>>
cells == <<name, email, message, isPolishing, isSubmitting, status>>

(* Bound: how many handler invocations (Submit and AI Polish together) one  *)
(* behaviour holds.                                                        *)
MaxInvocations == 3

SubmitIds == 1..MaxInvocations
PolishIds == 1..MaxInvocations

(* ------------------------------ text ----------------------------------- *)
Space == " "

RECURSIVE TrimStart(_)
TrimStart(s) ==
    IF s = <<>> THEN s
    ELSE IF Head(s) = Space THEN TrimStart(Tail(s)) ELSE s

RECURSIVE TrimEnd(_)
TrimEnd(s) ==
    IF s = <<>> THEN s
    ELSE IF s[Len(s)] = Space THEN TrimEnd(SubSeq(s, 1, Len(s) - 1)) ELSE s

Trim(s) == TrimEnd(TrimStart(s))

(* JavaScript's !s for a string s. *)
Falsy(s) == s = <<>>

(* What the user can type into each input, and what the services answer. *)
NameInputs == { <<>>, <<" ">>, <<" ", "n">> }
EmailInputs == { <<>>, <<" ">>, <<"e", " ">> }
MessageInputs == { <<>>, <<" ">>, <<"m", " ">> }
Responses == { <<>>, <<" ">>, <<" ", "p">> }
ErrMessages == { "", "Network error" }
ApiKeys == { "", "key" }

(* ------------------------------ status --------------------------------- *)
NoStatus == [type |-> "null", text |-> ""]
ErrorStatus(t) == [type |-> "error", text |-> t]
SuccessStatus(t) == [type |-> "success", text |-> t]

KeyNotConfigured == ErrorStatus("AI API key not configured.")
Polished == SuccessStatus("Message polished!")
FillAllFields == ErrorStatus("Please fill in all fields.")
Sent == SuccessStatus("Message sent successfully!")

(* err.message || fallback *)
ErrText(msg, fallback) == IF msg = "" THEN fallback ELSE msg
PolishFailed(msg) == ErrorStatus(ErrText(msg, "AI polish failed."))
SubmitFailed(msg) == ErrorStatus(ErrText(msg, "Failed to send message."))

(* ------------------------- invocation records -------------------------- *)
IdleSub ==
    [pc |-> "idle", name |-> <<>>, email |-> <<>>, message |-> <<>>,
     docs |-> <<>>, mails |-> <<>>]

IdlePol == [pc |-> "idle", message |-> <<>>, calls |-> <<>>, response |-> <<>>]

SubInFlight(i) == sub[i].pc \in {"store", "email"}
PolInFlight(i) == pol[i].pc = "await"

(* The next invocation takes the first unused record. *)
Invoked ==
    Cardinality({i \in SubmitIds : sub[i].pc # "idle"})
        + Cardinality({i \in PolishIds : pol[i].pc # "idle"})

NextSub(i) ==
    /\ Invoked < MaxInvocations
    /\ sub[i].pc = "idle"
    /\ \A j \in SubmitIds : j < i => sub[j].pc # "idle"

NextPol(i) ==
    /\ Invoked < MaxInvocations
    /\ pol[i].pc = "idle"
    /\ \A j \in PolishIds : j < i => pol[j].pc # "idle"

Init ==
    /\ name = <<>>
    /\ email = <<>>
    /\ message = <<>>
    /\ isPolishing = FALSE
    /\ isSubmitting = FALSE
    /\ status = NoStatus
    /\ apiKey \in ApiKeys
    /\ sub = [i \in SubmitIds |-> IdleSub]
    /\ pol = [i \in PolishIds |-> IdlePol]

(* ------------------------------ typing --------------------------------- *)
SetName(v) ==
    /\ name' = v
    /\ UNCHANGED <<email, message, isPolishing, isSubmitting, status, apiKey, sub, pol>>

SetEmail(v) ==
    /\ email' = v
    /\ UNCHANGED <<name, message, isPolishing, isSubmitting, status, apiKey, sub, pol>>

SetMessage(v) ==
    /\ message' = v
    /\ UNCHANGED <<name, email, isPolishing, isSubmitting, status, apiKey, sub, pol>>

(* ---------------------------- handleAiPolish --------------------------- *)
PromptPrefix ==
    <<"Rewrite the following text to be professional, polite, and concise: ">>

Prompt(m) == PromptPrefix \o m

(* Mutant: the blank test without trim. *)
PolishBlank_NoTrim(m) == Falsy(m)

PolishBlank(m) == Falsy(Trim(m))

(* Mutant: the key check left out. *)
KeyMissing_Never(k) == FALSE

KeyMissing(k) == k = ""

(* Mutant: the response stored untrimmed. *)
PolishedMessage_Untrimmed(text) == text

PolishedMessage(text) == Trim(text)

(* Lines 16-32: the synchronous part, up to the await. *)
AiPolish(i) ==
    /\ NextPol(i)
    /\ IF PolishBlank(message)
       THEN /\ pol' = [pol EXCEPT ![i] = [IdlePol EXCEPT !.pc = "noop"]]
            /\ UNCHANGED <<isPolishing, status>>
       ELSE IF KeyMissing(apiKey)
       THEN /\ status' = KeyNotConfigured
            /\ pol' = [pol EXCEPT ![i] = [IdlePol EXCEPT !.pc = "nokey"]]
            /\ UNCHANGED isPolishing
       ELSE /\ isPolishing' = TRUE
            /\ status' = NoStatus
            /\ pol' = [pol EXCEPT ![i] =
                        [pc |-> "await", message |-> message,
                         calls |-> <<Prompt(message)>>, response |-> <<>>]]
    /\ UNCHANGED <<name, email, message, isSubmitting, apiKey, sub>>

(* Mutant: the response is dropped when the message was edited meanwhile. *)
PolishResolved_KeepsEdits(i, text) ==
    /\ PolInFlight(i)
    /\ IF ~Falsy(text) /\ message = pol[i].message
       THEN /\ message' = PolishedMessage(text)
            /\ status' = Polished
            /\ pol' = [pol EXCEPT ![i].pc = "replaced", ![i].response = text]
       ELSE /\ pol' = [pol EXCEPT ![i].pc = "empty", ![i].response = text]
            /\ UNCHANGED <<message, status>>
    /\ isPolishing' = FALSE
    /\ UNCHANGED <<name, email, isSubmitting, apiKey, sub>>

(* Lines 33-39, 42-44: generateContent resolved with text. *)
PolishResolved(i, text) ==
    /\ PolInFlight(i)
    /\ IF ~Falsy(text)
       THEN /\ message' = PolishedMessage(text)
            /\ status' = Polished
            /\ pol' = [pol EXCEPT ![i].pc = "replaced", ![i].response = text]
       ELSE /\ pol' = [pol EXCEPT ![i].pc = "empty", ![i].response = text]
            /\ UNCHANGED <<message, status>>
    /\ isPolishing' = FALSE
    /\ UNCHANGED <<name, email, isSubmitting, apiKey, sub>>

(* Mutant: the flag is cleared in the try block only, not in a finally. *)
PolishRejected_NoFinally(i, msg) ==
    /\ PolInFlight(i)
    /\ status' = PolishFailed(msg)
    /\ pol' = [pol EXCEPT ![i].pc = "failed"]
    /\ UNCHANGED <<name, email, message, isPolishing, isSubmitting, apiKey, sub>>

(* Lines 40-44: generateContent (or response.text()) threw. *)
PolishRejected(i, msg) ==
    /\ PolInFlight(i)
    /\ status' = PolishFailed(msg)
    /\ isPolishing' = FALSE
    /\ pol' = [pol EXCEPT ![i].pc = "failed"]
    /\ UNCHANGED <<name, email, message, isSubmitting, apiKey, sub>>

(* ----------------------------- handleSubmit ---------------------------- *)
(* Mutant: the validation without trim. *)
SubmitInvalid_NoTrim(n, e, m) == Falsy(n) \/ Falsy(e) \/ Falsy(m)

(* Mutant: the handler also bails out while a submit is outstanding. *)
SubmitInvalid_WhileSubmitting(n, e, m) ==
    isSubmitting \/ Falsy(Trim(n)) \/ Falsy(Trim(e)) \/ Falsy(Trim(m))

SubmitInvalid(n, e, m) == Falsy(Trim(n)) \/ Falsy(Trim(e)) \/ Falsy(Trim(m))

Doc(n, e, m) == [name |-> Trim(n), email |-> Trim(e), message |-> Trim(m)]

(* Mutant: the email carries the message untrimmed. *)
EmailParams_Untrimmed(n, e, m) ==
    [from_name |-> Trim(n), from_email |-> Trim(e), message |-> m]

EmailParams(n, e, m) ==
    [from_name |-> Trim(n), from_email |-> Trim(e), message |-> Trim(m)]

(* Lines 47-65: the synchronous part, up to the first await. *)
Submit(i) ==
    /\ NextSub(i)
    /\ IF SubmitInvalid(name, email, message)
       THEN /\ status' = FillAllFields
            /\ sub' = [sub EXCEPT ![i] = [IdleSub EXCEPT !.pc = "rejected"]]
            /\ UNCHANGED isSubmitting
       ELSE /\ isSubmitting' = TRUE
            /\ status' = NoStatus
            /\ sub' = [sub EXCEPT ![i] =
                        [pc |-> "store", name |-> name, email |-> email,
                         message |-> message,
                         docs |-> <<Doc(name, email, message)>>,
                         mails |-> <<>>]]
    /\ UNCHANGED <<name, email, message, isPolishing, apiKey, pol>>

(* Lines 67-77: addDoc resolved; emailjs.send is called with the closure's values. *)
StoreResolved(i) ==
    /\ sub[i].pc = "store"
    /\ sub' = [sub EXCEPT ![i].pc = "email",
                          ![i].mails = Append(@,
                              EmailParams(sub[i].name, sub[i].email, sub[i].message))]
    /\ UNCHANGED <<name, email, message, isPolishing, isSubmitting, status, apiKey, pol>>

(* Mutant: the two calls are issued side by side, so the email send goes   *)
(* out although the store write throws.                                    *)
StoreRejected_ThenEmail(i, msg) ==
    /\ sub[i].pc = "store"
    /\ status' = SubmitFailed(msg)
    /\ isSubmitting' = FALSE
    /\ sub' = [sub EXCEPT ![i].pc = "storeFailed",
                          ![i].mails = Append(@,
                              EmailParams(sub[i].name, sub[i].email, sub[i].message))]
    /\ UNCHANGED <<name, email, message, isPolishing, apiKey, pol>>

(* Lines 83-87: addDoc threw. *)
StoreRejected(i, msg) ==
    /\ sub[i].pc = "store"
    /\ status' = SubmitFailed(msg)
    /\ isSubmitting' = FALSE
    /\ sub' = [sub EXCEPT ![i].pc = "storeFailed"]
    /\ UNCHANGED <<name, email, message, isPolishing, apiKey, pol>>

(* Lines 79-82, 85-87: emailjs.send resolved. *)
EmailResolved(i) ==
    /\ sub[i].pc = "email"
    /\ status' = Sent
    /\ name' = <<>>
    /\ email' = <<>>
    /\ message' = <<>>
    /\ isSubmitting' = FALSE
    /\ sub' = [sub EXCEPT ![i].pc = "sent"]
    /\ UNCHANGED <<isPolishing, apiKey, pol>>

(* Mutant: the form is reset in a finally, so also when the email fails. *)
EmailRejected_ResetsFields(i, msg) ==
    /\ sub[i].pc = "email"
    /\ status' = SubmitFailed(msg)
    /\ name' = <<>>
    /\ email' = <<>>
    /\ message' = <<>>
    /\ isSubmitting' = FALSE
    /\ sub' = [sub EXCEPT ![i].pc = "emailFailed"]
    /\ UNCHANGED <<isPolishing, apiKey, pol>>

(* Lines 83-87: emailjs.send threw. *)
EmailRejected(i, msg) ==
    /\ sub[i].pc = "email"
    /\ status' = SubmitFailed(msg)
    /\ isSubmitting' = FALSE
    /\ sub' = [sub EXCEPT ![i].pc = "emailFailed"]
    /\ UNCHANGED <<name, email, message, isPolishing, apiKey, pol>>

(* ---------------------------- specification ---------------------------- *)
Next ==
    \/ \E v \in NameInputs : SetName(v)
    \/ \E v \in EmailInputs : SetEmail(v)
    \/ \E v \in MessageInputs : SetMessage(v)
    \/ \E i \in PolishIds : AiPolish(i)
    \/ \E i \in PolishIds, t \in Responses : PolishResolved(i, t)
    \/ \E i \in PolishIds, m \in ErrMessages : PolishRejected(i, m)
    \/ \E i \in SubmitIds : Submit(i)
    \/ \E i \in SubmitIds : StoreResolved(i)
    \/ \E i \in SubmitIds, m \in ErrMessages : StoreRejected(i, m)
    \/ \E i \in SubmitIds : EmailResolved(i)
    \/ \E i \in SubmitIds, m \in ErrMessages : EmailRejected(i, m)

Spec == Init /\ [][Next]_vars

(* No outbound call stays outstanding for ever. *)
PolishSettled(i) ==
    \/ \E t \in Responses : PolishResolved(i, t)
    \/ \E m \in ErrMessages : PolishRejected(i, m)

StoreSettled(i) == StoreResolved(i) \/ \E m \in ErrMessages : StoreRejected(i, m)

EmailSettled(i) == EmailResolved(i) \/ \E m \in ErrMessages : EmailRejected(i, m)

CallsSettle ==
    /\ \A i \in PolishIds : WF_vars(PolishSettled(i))
    /\ \A i \in SubmitIds : WF_vars(StoreSettled(i)) /\ WF_vars(EmailSettled(i))

LiveSpec == Init /\ [][Next]_vars /\ CallsSettle

(* ------------------------------- claims -------------------------------- *)
(* Empty or whitespace-only, stated without trim. *)
Blank(s) == \A k \in 1..Len(s) : s[k] = Space

(* The step in which invocation i of a handler is made. *)
SubInvoked(i) == sub[i].pc = "idle" /\ sub'[i].pc # "idle"
PolInvoked(i) == pol[i].pc = "idle" /\ pol'[i].pc # "idle"

FieldsKept == name' = name /\ email' = email /\ message' = message

(* C1: a Submit invocation made while name, email or message is empty or   *)
(* whitespace-only issues no store write and no email send, then or later, *)
(* sets status to the error 'Please fill in all fields.', and leaves       *)
(* isSubmitting and the three fields as they were.                         *)
C1_BlankSubmitRejected ==
    [][\A i \in SubmitIds :
        /\ (SubInvoked(i) /\ (Blank(name) \/ Blank(email) \/ Blank(message)))
             => /\ sub'[i].pc = "rejected"
                /\ sub'[i].docs = <<>>
                /\ sub'[i].mails = <<>>
                /\ status' = FillAllFields
                /\ isSubmitting' = isSubmitting
                /\ FieldsKept
        /\ sub[i].pc = "rejected" => sub'[i] = sub[i]]_vars

C1_Witness ==
    \E i \in SubmitIds :
        /\ sub[i].pc = "rejected"
        /\ sub[i].docs = <<>> /\ sub[i].mails = <<>>
        /\ status = FillAllFields
        /\ ~Blank(name) /\ email = <<" ">> /\ ~Blank(message)
        /\ ~isSubmitting

(* C2: a Submit invocation made with three non-blank fields issues one     *)
(* store write carrying the trimmed name, email and message; when its      *)
(* store write and its email send have both succeeded it has issued        *)
(* exactly one store write and exactly one email send, the email send      *)
(* carrying the same trimmed values, and on completion name, email and     *)
(* message are empty, status is the success status and isSubmitting is     *)
(* false.                                                                  *)
C2_SuccessfulSubmit ==
    [][\A i \in SubmitIds :
        /\ (SubInvoked(i) /\ ~Blank(name) /\ ~Blank(email) /\ ~Blank(message))
             => /\ sub'[i].docs =
                     <<[name |-> Trim(name), email |-> Trim(email),
                        message |-> Trim(message)]>>
                /\ sub'[i].mails = <<>>
        /\ (sub[i].pc = "email" /\ sub'[i].pc = "sent")
             => /\ Len(sub'[i].docs) = 1
                /\ Len(sub'[i].mails) = 1
                /\ sub'[i].mails[1].from_name = sub'[i].docs[1].name
                /\ sub'[i].mails[1].from_email = sub'[i].docs[1].email
                /\ sub'[i].mails[1].message = sub'[i].docs[1].message
                /\ name' = <<>> /\ email' = <<>> /\ message' = <<>>
                /\ status' = Sent
                /\ status'.type = "success"
                /\ isSubmitting' = FALSE
        /\ sub[i].pc # "idle" => sub'[i].docs = sub[i].docs]_vars

C2_Witness ==
    /\ sub[1].pc = "sent"
    /\ \A j \in SubmitIds : j # 1 => sub[j].pc = "idle"
    /\ sub[1].name = <<" ", "n">>
    /\ sub[1].docs = <<[name |-> <<"n">>, email |-> <<"e">>, message |-> <<"m">>]>>
    /\ sub[1].mails =
         <<[from_name |-> <<"n">>, from_email |-> <<"e">>, message |-> <<"m">>]>>
    /\ name = <<>> /\ email = <<>> /\ message = <<>>
    /\ status = Sent
    /\ ~isSubmitting

(* C3: an invocation's email send is issued only once its store write has  *)
(* succeeded; when the store write throws, the invocation never issues an  *)
(* email send, status becomes an error status, and name, email and message *)
(* are not reset.                                                          *)
C3_StoreFailureStopsSubmit ==
    [][\A i \in SubmitIds :
        /\ sub'[i].mails # <<>> => sub'[i].pc \in {"email", "sent", "emailFailed"}
        /\ (sub[i].pc = "store" /\ sub'[i].pc \notin {"store", "email"})
             => /\ sub'[i].pc = "storeFailed"
                /\ sub'[i].mails = <<>>
                /\ status'.type = "error"
                /\ FieldsKept
        /\ sub[i].pc = "storeFailed" => sub'[i] = sub[i]]_vars

C3_Witness ==
    \E i \in SubmitIds :
        /\ sub[i].pc = "storeFailed"
        /\ Len(sub[i].docs) = 1 /\ sub[i].mails = <<>>
        /\ status = SubmitFailed("")
        /\ name = sub[i].name /\ email = sub[i].email /\ message = sub[i].message
        /\ ~Blank(name) /\ ~Blank(email) /\ ~Blank(message)

(* C4: when an invocation's store write has succeeded and its email send   *)
(* throws, status becomes an error status, the invocation issues no        *)
(* further store operation (the written document stays), name, email and   *)
(* message are not reset, and isSubmitting ends false.                     *)
C4_EmailFailureNoRollback ==
    [][\A i \in SubmitIds :
        /\ (sub[i].pc = "email" /\ sub'[i].pc \notin {"email", "sent"})
             => /\ sub'[i].pc = "emailFailed"
                /\ status'.type = "error"
                /\ sub'[i].docs = sub[i].docs
                /\ Len(sub'[i].docs) = 1
                /\ Len(sub'[i].mails) = 1
                /\ FieldsKept
                /\ isSubmitting' = FALSE
        /\ sub[i].pc = "emailFailed" => sub'[i] = sub[i]]_vars

C4_Witness ==
    \E i \in SubmitIds :
        /\ sub[i].pc = "emailFailed"
        /\ Len(sub[i].docs) = 1 /\ Len(sub[i].mails) = 1
        /\ status = SubmitFailed("Network error")
        /\ name = sub[i].name /\ email = sub[i].email /\ message = sub[i].message
        /\ ~Blank(name) /\ ~Blank(email) /\ ~Blank(message)
        /\ ~isSubmitting

(* C5: an AI Polish invocation made while the message is empty or          *)
(* whitespace-only issues no generative-text call, then or later, and      *)
(* leaves name, email, message, isPolishing, isSubmitting and status       *)
(* unchanged.                                                              *)
C5_BlankPolishIsNoop ==
    [][\A i \in PolishIds :
        /\ (PolInvoked(i) /\ Blank(message))
             => /\ pol'[i].pc = "noop"
                /\ pol'[i].calls = <<>>
                /\ cells' = cells
        /\ pol[i].pc = "noop" => pol'[i] = pol[i]]_vars

C5_Witness ==
    \E i \in PolishIds :
        /\ pol[i].pc = "noop"
        /\ pol[i].calls = <<>>
        /\ message = <<" ">>
        /\ apiKey = "key"
        /\ status = FillAllFields
        /\ ~isPolishing

(* C6 as stated: in any form state, an AI Polish invocation made with no   *)
(* API key configured issues no generative-text call, immediately sets     *)
(* status to the error 'AI API key not configured.' and never sets         *)
(* isPolishing to true.                                                    *)
C6_Original ==
    [][\A i \in PolishIds :
        (PolInvoked(i) /\ apiKey = "")
            => /\ pol'[i].calls = <<>>
               /\ status' = KeyNotConfigured
               /\ ~isPolishing']_vars

(* C6, amended: with no API key configured an AI Polish invocation issues  *)
(* no generative-text call and isPolishing is never true, in any form      *)
(* state; the invocation sets status to the error 'AI API key not          *)
(* configured.' when the message is non-blank, and leaves status as it was *)
(* when the message is empty or whitespace-only.                           *)
C6_NoKeyNoCall ==
    [][\A i \in PolishIds :
        /\ (PolInvoked(i) /\ apiKey = "")
             => /\ pol'[i].calls = <<>>
                /\ pol'[i].pc \in {"noop", "nokey"}
                /\ ~isPolishing /\ ~isPolishing'
                /\ FieldsKept
                /\ isSubmitting' = isSubmitting
                /\ status' = IF Blank(message) THEN status ELSE KeyNotConfigured
        /\ pol[i].pc = "nokey" => pol'[i] = pol[i]]_vars

C6_Witness ==
    \E i \in PolishIds :
        /\ apiKey = ""
        /\ pol[i].pc = "nokey"
        /\ pol[i].calls = <<>>
        /\ status = KeyNotConfigured
        /\ ~Blank(message)
        /\ ~isPolishing

(* The step in which a Polish call that is outstanding resolves with       *)
(* non-empty text.                                                         *)
PolGotText(i) ==
    pol[i].pc = "await" /\ pol'[i].pc \notin {"await", "failed"} /\ pol'[i].response # <<>>

PolishReplaced(i) ==
    /\ pol'[i].pc = "replaced"
    /\ message' = Trim(pol'[i].response)
    /\ status' = Polished
    /\ status'.type = "success"
    /\ ~isPolishing'

(* C7 as stated: while a Polish call is outstanding isPolishing is true    *)
(* and status is cleared, and once the call resolves with non-empty text   *)
(* the message is the trimmed response, status is a success status and     *)
(* isPolishing is false.                                                   *)
C7_Original ==
    [][\A i \in PolishIds :
        /\ pol'[i].pc = "await" => (isPolishing' /\ status' = NoStatus)
        /\ PolGotText(i) => PolishReplaced(i)]_vars

(* C7, amended: an AI Polish invocation with a non-blank message and a     *)
(* configured key sets isPolishing to true and clears status; while its    *)
(* call is outstanding isPolishing changes only when another Polish        *)
(* invocation acts and status changes only when another Polish or a        *)
(* Submit invocation acts; once the call resolves with non-empty text the  *)
(* message is the trimmed response, status is a success status and         *)
(* isPolishing is false.                                                   *)
C7_PolishReplacesMessage ==
    [][\A i \in PolishIds :
        /\ (PolInvoked(i) /\ ~Blank(message) /\ apiKey # "")
             => /\ pol'[i].pc = "await"
                /\ isPolishing'
                /\ status' = NoStatus
        /\ (pol[i].pc = "await" /\ pol'[i].pc = "await")
             => /\ isPolishing' # isPolishing
                     => \E j \in PolishIds : j # i /\ pol'[j] # pol[j]
                /\ status' # status
                     => \/ \E j \in PolishIds : j # i /\ pol'[j] # pol[j]
                        \/ sub' # sub
        /\ PolGotText(i) => PolishReplaced(i)]_vars

C7_Witness ==
    \E i \in PolishIds :
        /\ pol[i].pc = "replaced"
        /\ pol[i].response = <<" ", "p">>
        /\ message = <<"p">>
        /\ status = Polished
        /\ ~isPolishing

(* C8: provided every outbound call settles, every invocation that put a   *)
(* call out finishes; the step that finishes a Polish invocation leaves    *)
(* isPolishing false and the step that finishes a Submit invocation leaves *)
(* isSubmitting false, whatever the outcome; and whenever no invocation is *)
(* in flight both flags are false.                                         *)
SubFinished(i) == sub[i].pc \in {"sent", "storeFailed", "emailFailed"}
PolFinished(i) == pol[i].pc \in {"replaced", "empty", "failed"}

Quiescent ==
    /\ \A i \in SubmitIds : ~SubInFlight(i)
    /\ \A i \in PolishIds : ~PolInFlight(i)

C9_SubmitsNotExcluded ==
    [][\A i \in SubmitIds :
        /\ (SubInvoked(i) /\ ~Blank(name) /\ ~Blank(email) /\ ~Blank(message))
             => /\ sub'[i].pc = "store"
                /\ Len(sub'[i].docs) = 1
                /\ \A j \in SubmitIds : j # i => sub'[j] = sub[j]
        /\ (sub[i].pc = "store" /\ sub'[i].pc = "email")
             => /\ Len(sub'[i].mails) = 1
                /\ \A j \in SubmitIds : j # i => sub'[j] = sub[j]
        /\ (sub[i].pc \in {"store", "email"} /\ sub'[i].pc \notin {"store", "email"})
             => ~isSubmitting']_vars

C9_Witness ==
    \E i, j \in SubmitIds :
        /\ i # j
        /\ SubFinished(i)
        /\ SubInFlight(j)
        /\ sub[i].docs = sub[j].docs
        /\ Len(sub[j].docs) = 1
        /\ ~isSubmitting

(* C10 as stated: a Polish call that resolves with non-empty text          *)
(* overwrites the message and the status, and when a Submit has succeeded  *)
(* and cleared the fields in the meantime the message becomes non-empty    *)
(* again.                                                                  *)
C10_Original ==
    [][\A i \in PolishIds :
        PolGotText(i)
            => /\ message' = Trim(pol'[i].response)
               /\ status' = Polished
               /\ (status = Sent /\ message = <<>>) => message' # <<>>]_vars

(* C10, amended: an AI Polish invocation's prompt is built from the        *)
(* message as it was when Polish was invoked and does not follow later     *)
(* edits; when its call resolves with non-empty text the message becomes   *)
(* the trimmed response and status the polish status, whatever they held   *)
(* (typed edits, or the empty field and success status a Submit left); the *)
(* message is then non-empty unless the response is whitespace-only.       *)
C10_PolishOverwrites ==
    [][\A i \in PolishIds :
        /\ (PolInvoked(i) /\ pol'[i].pc = "await")
             => /\ pol'[i].calls = <<PromptPrefix \o message>>
                /\ pol'[i].message = message
        /\ pol[i].pc # "idle" => pol'[i].calls = pol[i].calls
        /\ PolGotText(i)
             => /\ message' = Trim(pol'[i].response)
                /\ status' = Polished
                /\ (message' = <<>>) = Blank(pol'[i].response)]_vars

C10_Witness ==
    \E i \in PolishIds, j \in SubmitIds :
        /\ pol[i].pc = "replaced"
        /\ pol[i].calls = <<PromptPrefix \o <<"m", " ">>>>
        /\ sub[j].pc = "sent"
        /\ sub[j].docs[1].message = <<"m">>
        /\ name = <<>> /\ email = <<>>
        /\ message = <<"p">>
        /\ status = Polished

====
